---------------------------- MODULE Spec2Model ----------------------------
(***************************************************************************)
(* A model of the fortuner crate (src/fortuner/src/lib.rs): get_args,     *)
(* find_files, read_fortunes, pick_fortune and run; of parse_month and    *)
(* format_month of the calr crate (src/calr/src/lib.rs); and of run of the *)
(* uniqr crate (src/uniqr/src/lib.rs).                                     *)
(*                                                                         *)
(* Text is modelled by what the code does with it: a string is a sequence  *)
(* of byte values, a line is a string without its line break, a path is a  *)
(* sequence of components (each a string).                                 *)
(***************************************************************************)
EXTENDS Naturals, Sequences, FiniteSets

VARIABLES
    arg,          \* what the call was given: command-line values, or the arguments of a function called alone
    entry,        \* the function that was called: run, or one its tests call
    pc,           \* position of the running call
    fsys,         \* the filesystem: kind of every node
    fdata,        \* the filesystem: what opening and reading a path gives
    sources,      \* Config.sources, the paths given to find_files
    pattern,      \* Config.pattern
    seed,         \* Config.seed
    files,        \* the result of find_files / the paths of read_fortunes
    ret,          \* what the running call returned
    pathIdx,      \* read_fortunes: index of the path being read
    lineIdx,      \* read_fortunes: number of lines consumed from that file
    buf,          \* read_fortunes: the pending lines
    fortunes,     \* read_fortunes: result; run: fortunes
    delims,       \* history: number of "%" lines read_fortunes has consumed
    bufFrom,      \* history: where each line of buf was read, << path index, line number >>
    fortunesFrom, \* history: for each fortune, the path index it was pushed at and where its lines were read
    prev_source,  \* run: source of the previous match
    matchIdx,     \* run: position of the filter iterator in fortunes
    output,       \* what was written: a sequence of [stream, bytes]
    picks,        \* the values returned by the calls of pick_fortune
    earlier,      \* history: what an earlier run on the same inputs was given and did
    line_prev,    \* uniqr run: line_prev
    count         \* uniqr run: count

vars == << arg, entry, pc, fsys, fdata, sources, pattern, seed, files, ret, pathIdx,
           lineIdx, buf, fortunes, delims, bufFrom, fortunesFrom,
           prev_source, matchIdx, output, picks,
           earlier, line_prev, count >>

-----------------------------------------------------------------------------
(* Bounds of the model *)

MaxArgs == 2

MaxFiles == 2

MaxTotalLines == 5

MaxPicks == 2

-----------------------------------------------------------------------------
(* Strings *)

None == [tag |-> "None"]

Some(v) == [tag |-> "Some", val |-> v]

Range(s) == { s[i] : i \in 1..Len(s) }

SeqsUpTo(S, n) == UNION { [1..k -> S] : k \in 0..n }

\* "\n"
NewLine == << 10 >>

\* "/"
Slash == << 47 >>

\* "%"
Percent == << 37 >>

\* "." as a path component (CurDir)
Dot == << 46 >>

RECURSIVE StrLess(_, _)
\* s < t for strings (character by character, a proper prefix first)
StrLess(s, t) ==
    IF t = << >> THEN FALSE
    ELSE IF s = << >> THEN TRUE
    ELSE IF Head(s) # Head(t) THEN Head(s) < Head(t)
    ELSE StrLess(Tail(s), Tail(t))

RECURSIVE Join(_, _)
\* [String]::join(sep)
Join(ss, sep) ==
    IF ss = << >> THEN << >>
    ELSE IF Len(ss) = 1 THEN ss[1]
    ELSE ss[1] \o sep \o Join(Tail(ss), sep)

-----------------------------------------------------------------------------
(* Paths *)

\* the path as a string: components joined by '/'
PathStr(p) == Join(p, Slash)

\* Path::file_name: the last component
FileName(p) == p[Len(p)]

\* Ord of a path component: CurDir sorts before every normal component,
\* normal components compare as byte strings
CompLess(c, d) ==
    IF c = Dot THEN d # Dot
    ELSE IF d = Dot THEN FALSE
    ELSE StrLess(c, d)

RECURSIVE PathLess(_, _)
\* Ord of PathBuf: component by component
PathLess(p, q) ==
    IF q = << >> THEN FALSE
    ELSE IF p = << >> THEN TRUE
    ELSE IF Head(p) # Head(q) THEN CompLess(Head(p), Head(q))
    ELSE PathLess(Tail(p), Tail(q))

RECURSIVE Insert(_, _)
Insert(p, s) ==
    IF s = << >> THEN << p >>
    ELSE IF PathLess(p, Head(s)) THEN << p >> \o s
    ELSE << Head(s) >> \o Insert(p, Tail(s))

\* a sort that was forgotten
SortPathsNone(s) == s

RECURSIVE SortPaths(_)
\* Vec<PathBuf>::sort (stable)
SortPaths(s) ==
    IF s = << >> THEN << >>
    ELSE Insert(s[Len(s)], SortPaths(SubSeq(s, 1, Len(s) - 1)))

\* a dedup that was forgotten
DedupNone(s) == s

RECURSIVE Dedup(_)
\* Vec::dedup: drops an element equal to the one before it
Dedup(s) ==
    IF Len(s) <= 1 THEN s
    ELSE IF s[1] = s[2] THEN Dedup(Tail(s))
    ELSE << s[1] >> \o Dedup(Tail(s))

-----------------------------------------------------------------------------
(* The filesystem *)

cA == << 97 >>

cAB == << 97, 45, 98 >>

cX == << 120 >>

cY == << 121 >>

\* the nodes a filesystem of the model may hold: a, a/x, a/y, a/y/x, a-b, a-b/x
Nodes ==
    { << cA >>, << cA, cX >>, << cA, cY >>, << cA, cY, cX >>,
      << cAB >>, << cAB, cX >> }

\* file: a regular file; dir: a directory that can be read; lockeddir: a
\* directory that cannot be read; other: neither file nor directory;
\* nostat: an entry its directory lists and whose metadata cannot be read
Kinds == { "missing", "file", "dir", "lockeddir", "other", "nostat" }

Parent(n) == SubSeq(n, 1, Len(n) - 1)

FsSet ==
    { f \in [Nodes -> Kinds] :
        \A n \in Nodes :
            (Len(n) > 1 /\ f[n] # "missing") => f[Parent(n)] = "dir" }

RECURSIVE Resolve(_)
\* the node a path names: a leading "." names the current directory
Resolve(p) ==
    IF p # << >> /\ Head(p) = Dot THEN Resolve(Tail(p)) ELSE p

Kind(fs, p) == IF Resolve(p) \in Nodes THEN fs[Resolve(p)] ELSE "missing"

\* the paths a user may give: the nodes, and ./a-b and ./a-b/x
ArgPaths == Nodes \cup { << Dot, cAB >>, << Dot, cAB, cX >> }

\* std::fs::metadata(path): the kind, or the OS error
Metadata(fs, p) ==
    CASE Kind(fs, p) = "missing" -> [tag |-> "Err", val |-> "ENOENT"]
      [] Kind(fs, p) = "nostat" -> [tag |-> "Err", val |-> "EACCES"]
      [] OTHER -> [tag |-> "Ok", val |-> Kind(fs, p)]

\* the entries WalkDir::new(root) yields as Ok, the root included: every
\* node below root all of whose ancestors up to root can be read
WalkEntries(fs, root) ==
    LET rr == Resolve(root)
    IN  { root \o SubSeq(n, Len(rr) + 1, Len(n)) :
            n \in { m \in Nodes :
                      /\ Len(m) >= Len(rr)
                      /\ SubSeq(m, 1, Len(rr)) = rr
                      /\ fs[m] # "missing"
                      /\ \A k \in Len(rr)..(Len(m) - 1) :
                            fs[SubSeq(m, 1, k)] = "dir" } }

RECURSIVE SetToSeq(_)
\* the entries of a walk in path order
SetToSeq(S) ==
    IF S = {} THEN << >>
    ELSE LET m == CHOOSE x \in S : \A y \in S \ {x} : PathLess(x, y)
         IN  << m >> \o SetToSeq(S \ {m})

Reverse(s) == [i \in 1..Len(s) |-> s[Len(s) + 1 - i]]

\* the orders in which a walk can yield its entries: WalkDir does not sort,
\* the order is the one the directories are read in
WalkOrders == { "asc", "desc" }

\* the entries in the order the walk yields them
WalkSeq(S, ord) == IF ord = "asc" THEN SetToSeq(S) ELSE Reverse(SetToSeq(S))

IsFileEntry(fs, e) == Kind(fs, e) = "file"

\* format!("{}: {}", path, e)
ErrMsg(path, e) == [path |-> PathStr(path), oserr |-> e]

RECURSIVE FindLoop(_, _, _, _, _)
FindLoop(fs, paths, i, result, ord) ==
    IF i > Len(paths)
    THEN [tag |-> "Ok", val |-> Dedup(SortPaths(result))]
    ELSE LET path == paths[i]
             md == Metadata(fs, path)
         IN  IF md.tag = "Err"
             THEN [tag |-> "Err", val |-> ErrMsg(path, md.val)]
             ELSE IF md.val = "file"
             THEN FindLoop(fs, paths, i + 1, Append(result, path), ord)
             ELSE IF md.val \in { "dir", "lockeddir" }
             THEN LET entries == WalkEntries(fs, path)
                  IN  IF \E e \in entries : Kind(fs, e) = "nostat"
                      THEN [tag |-> "Panic"]   \* entry.metadata().unwrap()
                      ELSE FindLoop(fs, paths, i + 1,
                               result \o SelectSeq(WalkSeq(entries, ord),
                                            LAMBDA e : IsFileEntry(fs, e)),
                               ord)
             ELSE FindLoop(fs, paths, i + 1, result, ord)

\* find_files(paths), its walks yielding their entries in order ord
FindFiles(fs, paths, ord) == FindLoop(fs, paths, 1, << >>, ord)

-----------------------------------------------------------------------------
(* find_files called on its own *)

Idle ==
    /\ fdata = << >>
    /\ pattern = None
    /\ seed = None
    /\ files = << >>
    /\ ret = None
    /\ pathIdx = 0
    /\ lineIdx = 0
    /\ buf = << >>
    /\ fortunes = << >>
    /\ delims = 0
    /\ bufFrom = << >>
    /\ fortunesFrom = << >>
    /\ prev_source = None
    /\ matchIdx = 0
    /\ output = << >>
    /\ picks = << >>

InitFind ==
    /\ arg = None
    /\ earlier = None
    /\ line_prev = << >>
    /\ count = 0
    /\ entry = "find_files"
    /\ pc = "find_files"
    /\ fsys \in FsSet
    /\ sources \in SeqsUpTo(ArgPaths, MaxArgs)
    /\ Idle

CallFindFiles ==
    /\ entry = "find_files"
    /\ pc = "find_files"
    /\ \E ord \in WalkOrders : ret' = FindFiles(fsys, sources, ord)
    /\ files' = IF ret'.tag = "Ok" THEN ret'.val ELSE files
    /\ pc' = "done"
    /\ UNCHANGED << arg, entry, fsys, fdata, sources, pattern, seed, pathIdx,
                     lineIdx, buf, fortunes, delims, bufFrom, fortunesFrom,
                     prev_source, matchIdx, output, picks,
                     earlier, line_prev, count >>

\* a second call on the same filesystem, after a first one that returned
\* Ok(files): on the same paths again, or on the list the first call returned
CallFindFilesAgain ==
    /\ entry = "find_files"
    /\ pc = "done"
    /\ ret.tag = "Ok"
    /\ \E paths \in { sources, files } :
          /\ sources' = paths
          /\ \E ord \in WalkOrders : ret' = FindFiles(fsys, paths, ord)
    /\ pc' = "again"
    /\ UNCHANGED << arg, entry, fsys, fdata, pattern, seed, files, pathIdx,
                     lineIdx, buf, fortunes, delims, bufFrom, fortunesFrom,
                     prev_source, matchIdx, output, picks,
                     earlier, line_prev, count >>

NextFind ==
    \/ CallFindFiles
    \/ CallFindFilesAgain

SpecFind == InitFind /\ [][NextFind]_vars

-----------------------------------------------------------------------------
(* read_fortunes *)

\* a line that is not valid UTF-8: BufRead::lines yields Err for it
BadLine == << 255 >>

\* the lines a file of the model is made of: "", "%", "a" and a bad line
Lines == { << >>, Percent, << 97 >>, BadLine }

\* whether a raw line decodes (filter_map(|e| e.ok()) keeps it)
Decodes(line) == \A i \in 1..Len(line) : line[i] < 128

\* fs::File::open(path): the lines of the file, or the OS error
Open(data, path) == data[Resolve(path)]

Fortune(source, text) == [source |-> source, text |-> text]

\* what the pending buffer is when the lines of a file are exhausted: the
\* code leaves it as it is (buf is declared outside the loop over paths)
BufAtEndOfFile(b) == b

\* a flush that forgets buf.clear()
ReadStepNoClear(st, path, line) ==
    IF line = Percent /\ st.buf # << >>
    THEN [buf |-> st.buf,
          result |-> Append(st.result,
                            Fortune(FileName(path), Join(st.buf, NewLine)))]
    ELSE [buf |-> Append(st.buf, line), result |-> st.result]

\* a blank line is taken for a delimiter too
ReadStepFlushOnBlank(st, path, line) ==
    IF (line = Percent \/ line = << >>) /\ st.buf # << >>
    THEN [buf |-> << >>,
          result |-> Append(st.result,
                            Fortune(FileName(path), Join(st.buf, NewLine)))]
    ELSE [buf |-> Append(st.buf, line), result |-> st.result]

\* the body of the loop over the lines of a file, for one decoded line
ReadStep(st, path, line) ==
    IF line = Percent /\ st.buf # << >>
    THEN [buf |-> << >>,
          result |-> Append(st.result,
                            Fortune(FileName(path), Join(st.buf, NewLine)))]
    ELSE [buf |-> Append(st.buf, line), result |-> st.result]

RECURSIVE ReadLines(_, _, _)
\* the loop over the lines of an opened file
ReadLines(st, path, lines) ==
    IF lines = << >> THEN [buf |-> BufAtEndOfFile(st.buf), result |-> st.result]
    ELSE IF ~Decodes(Head(lines)) THEN ReadLines(st, path, Tail(lines))
    ELSE ReadLines(ReadStep(st, path, Head(lines)), path, Tail(lines))

RECURSIVE ReadPaths(_, _, _)
\* the loop over the paths
ReadPaths(st, data, paths) ==
    IF paths = << >> THEN st
    ELSE LET f == Open(data, Head(paths))
         IN  IF f.tag = "Err" THEN ReadPaths(st, data, Tail(paths))
             ELSE ReadPaths(ReadLines(st, Head(paths), f.val), data,
                            Tail(paths))

\* read_fortunes(paths): the corpus
ReadFortunes(data, paths) ==
    ReadPaths([buf |-> << >>, result |-> << >>], data, paths).result

\* the loop over paths takes the next path and opens it
OpenFile ==
    /\ pc = "read_open"
    /\ pathIdx <= Len(files)
    /\ Open(fdata, files[pathIdx]).tag = "Ok"
    /\ pc' = "read_lines"
    /\ lineIdx' = 0
    /\ UNCHANGED << arg, entry, fsys, fdata, sources, pattern, seed, files, ret,
                     pathIdx, buf, fortunes, delims, bufFrom, fortunesFrom,
                     prev_source, matchIdx, output, picks,
                     earlier, line_prev, count >>

\* an open that fails ends the call with the error instead of going on
OpenFailAbort ==
    /\ pc = "read_open"
    /\ pathIdx <= Len(files)
    /\ Open(fdata, files[pathIdx]).tag = "Err"
    /\ pc' = "done"
    /\ ret' = [tag |-> "Err",
               val |-> ErrMsg(files[pathIdx], Open(fdata, files[pathIdx]).val)]
    /\ UNCHANGED << arg, entry, fsys, fdata, sources, pattern, seed, files,
                     pathIdx, lineIdx, buf, fortunes, delims, bufFrom,
                     fortunesFrom, prev_source, matchIdx, output, picks,
                     earlier, line_prev, count >>

\* opening fails: a diagnostic, and on to the next path
OpenFail ==
    /\ pc = "read_open"
    /\ pathIdx <= Len(files)
    /\ Open(fdata, files[pathIdx]).tag = "Err"
    /\ output' = Append(output,
                        [by |-> "read_fortunes", stream |-> "stderr",
                         text |-> ErrMsg(files[pathIdx],
                                         Open(fdata, files[pathIdx]).val)])
    /\ pathIdx' = pathIdx + 1
    /\ UNCHANGED << arg, entry, pc, fsys, fdata, sources, pattern, seed, files,
                     ret, lineIdx, buf, fortunes, delims, bufFrom,
                     fortunesFrom, prev_source, matchIdx, picks,
                     earlier, line_prev, count >>

CurLines == Open(fdata, files[pathIdx]).val

\* the loop over lines takes a line that decodes
ReadLine ==
    /\ pc = "read_lines"
    /\ lineIdx < Len(CurLines)
    /\ Decodes(CurLines[lineIdx + 1])
    /\ LET line == CurLines[lineIdx + 1]
           st == ReadStep([buf |-> buf, result |-> fortunes],
                          files[pathIdx], line)
           flush == Len(st.result) > Len(fortunes)
       IN  /\ buf' = st.buf
           /\ fortunes' = st.result
           /\ delims' = IF line = Percent THEN delims + 1 ELSE delims
           /\ bufFrom' = IF flush THEN << >>
                         ELSE Append(bufFrom, << pathIdx, lineIdx + 1 >>)
           /\ fortunesFrom' =
                  IF flush
                  THEN Append(fortunesFrom,
                              [at |-> pathIdx, delim |-> lineIdx + 1,
                               lines |-> bufFrom])
                  ELSE fortunesFrom
    /\ lineIdx' = lineIdx + 1
    /\ UNCHANGED << arg, entry, pc, fsys, fdata, sources, pattern, seed, files,
                     ret, pathIdx, prev_source, matchIdx, output, picks,
                     earlier, line_prev, count >>

\* the loop over lines drops a line that does not decode
SkipLine ==
    /\ pc = "read_lines"
    /\ lineIdx < Len(CurLines)
    /\ ~Decodes(CurLines[lineIdx + 1])
    /\ lineIdx' = lineIdx + 1
    /\ UNCHANGED << arg, entry, pc, fsys, fdata, sources, pattern, seed, files,
                     ret, pathIdx, buf, fortunes, delims, bufFrom,
                     fortunesFrom, prev_source, matchIdx, output, picks,
                     earlier, line_prev, count >>

\* the lines of the file are exhausted: on to the next path
EndOfFile ==
    /\ pc = "read_lines"
    /\ lineIdx = Len(CurLines)
    /\ buf' = BufAtEndOfFile(buf)
    /\ bufFrom' = IF buf' = buf THEN bufFrom ELSE << >>
    /\ pathIdx' = pathIdx + 1
    /\ pc' = "read_open"
    /\ UNCHANGED << arg, entry, fsys, fdata, sources, pattern, seed, files, ret,
                     lineIdx, fortunes, delims, fortunesFrom, prev_source,
                     matchIdx, output, picks,
                     earlier, line_prev, count >>

\* the paths are exhausted: Ok(result)
ReadReturn ==
    /\ pc = "read_open"
    /\ pathIdx > Len(files)
    /\ IF entry = "run"
       THEN pc' = "run_output" /\ ret' = ret
       ELSE pc' = "done" /\ ret' = [tag |-> "Ok", val |-> fortunes]
    /\ UNCHANGED << arg, entry, fsys, fdata, sources, pattern, seed, files,
                     pathIdx, lineIdx, buf, fortunes, delims, bufFrom,
                     fortunesFrom, prev_source, matchIdx, output, picks,
                     earlier, line_prev, count >>

-----------------------------------------------------------------------------
(* read_fortunes called on its own *)

\* the paths given to read_fortunes: a/x, a/y, a-b/x
TestPaths == << << cA, cX >>, << cA, cY >>, << cAB, cX >> >>

NoFs == [n \in Nodes |-> "missing"]

InitRead ==
    /\ arg = None
    /\ earlier = None
    /\ line_prev = << >>
    /\ count = 0
    /\ entry = "read_fortunes"
    /\ pc = "read_open"
    /\ fsys = NoFs
    /\ sources = << >>
    /\ pattern = None
    /\ seed = None
    /\ ret = None
    /\ \E n \in 0..MaxFiles :
        /\ n <= Len(TestPaths)
        /\ files = SubSeq(TestPaths, 1, n)
        /\ \E t \in 0..MaxTotalLines :
            \E all \in [1..t -> Lines] :
            \E cut \in [0..n -> 0..t] :
            \E opens \in [1..n -> BOOLEAN] :
               /\ cut[0] = 0
               /\ cut[n] = t
               /\ \A i \in 1..n : cut[i - 1] <= cut[i]
               /\ \A i \in 1..n : ~opens[i] => cut[i - 1] = cut[i]
               /\ fdata = [p \in Range(files) |->
                            LET i == CHOOSE j \in 1..n : files[j] = p
                            IN  IF opens[i]
                                THEN [tag |-> "Ok",
                                      val |-> SubSeq(all, cut[i - 1] + 1,
                                                     cut[i])]
                                ELSE [tag |-> "Err", val |-> "EACCES"]]
    /\ pathIdx = 1
    /\ lineIdx = 0
    /\ buf = << >>
    /\ fortunes = << >>
    /\ delims = 0
    /\ bufFrom = << >>
    /\ fortunesFrom = << >>
    /\ prev_source = None
    /\ matchIdx = 0
    /\ output = << >>
    /\ picks = << >>

NextRead ==
    \/ OpenFile
    \/ OpenFail
    \/ ReadLine
    \/ SkipLine
    \/ EndOfFile
    \/ ReadReturn

SpecRead == InitRead /\ [][NextRead]_vars

-----------------------------------------------------------------------------
(* Claims about find_files *)

FindDone == entry = "find_files" /\ pc = "done"

\* C3: when find_files succeeds, the list it returns holds no path twice and
\* every path of it is a regular file, never a directory.
C3_NoDuplicateOnlyFiles ==
    (FindDone /\ ret.tag = "Ok") =>
        /\ \A i, j \in 1..Len(ret.val) : i # j => ret.val[i] # ret.val[j]
        /\ \A i \in 1..Len(ret.val) : Kind(fsys, ret.val[i]) = "file"

\* a directory, a file below it given as an argument of its own, and a
\* repeated argument: the file is collected more than once
C3_Witness ==
    /\ FindDone
    /\ ret.tag = "Ok"
    /\ Len(ret.val) >= 2
    /\ \E i, j \in 1..Len(sources) :
          /\ Kind(fsys, sources[i]) = "dir"
          /\ Kind(fsys, sources[j]) = "file"
          /\ sources[j] \in WalkEntries(fsys, sources[i])

\* the order of the claim as amended: p is before q when, at the first
\* component where they differ, p has ended or p's component is smaller
ComponentBefore(c, d) ==
    \/ c = Dot /\ d # Dot
    \/ c # Dot /\ d # Dot /\ StrLess(c, d)

PathBefore(p, q) ==
    \E k \in 1..Len(q) :
        /\ \A j \in 1..(k - 1) : j <= Len(p) /\ p[j] = q[j]
        /\ \/ k = Len(p) + 1
           \/ k <= Len(p) /\ ComponentBefore(p[k], q[k])

\* C4 as stated: adjacent entries of the result are in the order of their
\* path strings, the separator compared like any other character.
C4_SortedByPathString ==
    (FindDone /\ ret.tag = "Ok") =>
        \A i \in 1..(Len(ret.val) - 1) :
            StrLess(PathStr(ret.val[i]), PathStr(ret.val[i + 1]))

\* C4 as amended: adjacent entries of the result are in path order, compared
\* component by component (a path whose components are a proper prefix of
\* another's first), the separator not being compared as a character.
C4_SortedByComponents ==
    (FindDone /\ ret.tag = "Ok") =>
        \A i \in 1..(Len(ret.val) - 1) :
            PathBefore(ret.val[i], ret.val[i + 1])

\* a/x and a-b are both returned, given in the other order: a/x comes first
\* although the string "a-b" is smaller than "a/x"
C4_Witness ==
    /\ FindDone
    /\ ret.tag = "Ok"
    /\ sources = << << cAB >>, << cA >> >>
    /\ ret.val = << << cA, cX >>, << cAB >> >>

-----------------------------------------------------------------------------
(* Claims about read_fortunes *)

ReadDone == entry = "read_fortunes" /\ pc = "done"

DelimPos(lines) == { i \in 1..Len(lines) : lines[i] = Percent }

\* the position of the j-th delimiter line
NthDelim(lines, j) ==
    IF j = 0 THEN 0
    ELSE CHOOSE i \in DelimPos(lines) :
            Cardinality({ m \in DelimPos(lines) : m <= i }) = j

\* the lines between the (j-1)-th and the j-th delimiter line
BlockOf(lines, j) ==
    SubSeq(lines, NthDelim(lines, j - 1) + 1, NthDelim(lines, j) - 1)

\* k >= 0 blocks, each one or more lines of text that are not "%" followed
\* by one line "%"
MadeOfBlocks(lines) ==
    /\ \A i \in 1..Len(lines) : Decodes(lines[i])
    /\ lines # << >> => lines[Len(lines)] = Percent
    /\ \A j \in 1..Cardinality(DelimPos(lines)) : BlockOf(lines, j) # << >>

\* read_fortunes has returned from a list of one file that could be opened
OneFile ==
    /\ ReadDone
    /\ Len(files) = 1
    /\ Open(fdata, files[1]).tag = "Ok"

TheLines == Open(fdata, files[1]).val

\* C1: read_fortunes on a single file made of k blocks returns exactly k
\* records, in order, the i-th with the lines of the i-th block joined by
\* "\n" as its text.
C1_BlocksBecomeRecords ==
    (OneFile /\ MadeOfBlocks(TheLines)) =>
        /\ Len(fortunes) = Cardinality(DelimPos(TheLines))
        /\ \A j \in 1..Len(fortunes) :
              fortunes[j].text = Join(BlockOf(TheLines, j), NewLine)

\* a file of two blocks, one of them of two lines
C1_Witness ==
    /\ OneFile
    /\ MadeOfBlocks(TheLines)
    /\ Cardinality(DelimPos(TheLines)) = 2
    /\ \E j \in 1..2 : Len(BlockOf(TheLines, j)) = 2
    /\ Len(fortunes) = 2

\* line l of the file at index f comes after the last delimiter line of
\* that file
Trailing(f, l) ==
    LET ls == Open(fdata, files[f]).val
    IN  \A m \in l..Len(ls) : ls[m] # Percent

\* C2: the lines of a file after its last delimiter line are in the text of
\* no record of the corpus, those of later files included.
C2_TrailingLinesDiscarded ==
    ReadDone =>
        \A j \in 1..Len(fortunesFrom) :
            \A k \in 1..Len(fortunesFrom[j].lines) :
                ~Trailing(fortunesFrom[j].lines[k][1],
                          fortunesFrom[j].lines[k][2])

RECURSIVE AloneCount(_)
\* the number of records of the first n files, each parsed alone
AloneCount(n) ==
    IF n = 0 THEN 0
    ELSE AloneCount(n - 1) + Len(ReadFortunes(fdata, << files[n] >>))

\* C8: the corpus of a list of files has as many records as the files
\* parsed alone have together, the records of an earlier file come before
\* those of a later one, and the records of one file keep their order.
C8_FilesParsedTogether ==
    ReadDone =>
        /\ Len(fortunes) = AloneCount(Len(files))
        /\ \A j, k \in 1..Len(fortunesFrom) :
              j < k =>
                \/ fortunesFrom[j].at < fortunesFrom[k].at
                \/ /\ fortunesFrom[j].at = fortunesFrom[k].at
                   /\ fortunesFrom[j].delim < fortunesFrom[k].delim

-----------------------------------------------------------------------------
(* pick_fortune *)

\* the index StdRng::seed_from_u64(val) makes choose draw from a slice of
\* n > 0 elements.  The generator is a function of the seed alone; this
\* function stands for it and gives the value the test pins (seed 1 on
\* three fortunes: the third).
StdRngIndex(val, n) == (((val * 7) + 1) % 16) % n

\* a seed that is ignored
PickFortuneUnseeded(fs, sd) ==
    IF fs = << >> THEN { None }
    ELSE { Some(fs[i].text) : i \in 1..Len(fs) }

\* an index drawn from the generator's range instead of the slice's
PickFortuneAnyIndex(fs, sd) ==
    IF fs = << >> THEN { None }
    ELSE LET Get(i) == IF i < Len(fs) THEN Some(fs[i + 1].text) ELSE None
         IN  IF sd.tag = "Some"
             THEN { Get(((sd.val * 7) + 1) % 16) }
             ELSE { Get(i) : i \in 0..Len(fs) }

\* pick_fortune(fortunes, seed): the values a call may return.  With a seed
\* the index is the generator's; without, thread_rng may draw any index.
PickFortune(fs, sd) ==
    IF fs = << >> THEN { None }
    ELSE IF sd.tag = "Some"
    THEN { Some(fs[StdRngIndex(sd.val, Len(fs)) + 1].text) }
    ELSE { Some(fs[i].text) : i \in 1..Len(fs) }

-----------------------------------------------------------------------------
(* run *)

\* to_lowercase of an ASCII character
Fold(c) == IF c >= 65 /\ c <= 90 THEN c + 32 ELSE c

FoldStr(str) == [i \in 1..Len(str) |-> Fold(str[i])]

\* whether lit occurs in text
Occurs(lit, text) ==
    \E i \in 0..(Len(text) - Len(lit)) :
        SubSeq(text, i + 1, i + Len(lit)) = lit

\* Regex::is_match for a pattern that is a literal, built case-insensitive
\* or not
IsMatch(pat, text) ==
    IF pat.insensitive THEN Occurs(FoldStr(pat.lit), FoldStr(text))
    ELSE Occurs(pat.lit, text)

\* a filter that lets every fortune through
SelectedAll(pat, f) == TRUE

\* a filter that lets nothing through when a seed is given
SelectedUnseeded(pat, f) == IsMatch(pat, f.text) /\ seed = None

\* the closure of the filter: |f| pattern.is_match(&f.text)
Selected(pat, f) == IsMatch(pat, f.text)

\* a header printed only for the first match
NeedsHeaderFirstOnly(prev, source) == prev = None

\* prev_source.as_ref().map_or(true, |s| s != &fortune.source)
NeedsHeader(prev, source) ==
    IF prev = None THEN TRUE ELSE prev.val # source

\* "({})\n%" and the line break of eprintln!
HeaderText(source) == << 40 >> \o source \o << 41 >> \o NewLine \o Percent \o NewLine

\* "{}\n%" and the line break of println!
RecordText(text) == text \o NewLine \o Percent \o NewLine

\* a message cut short
NoFortunesFoundShort == << 78, 111, 32, 102, 111, 114, 116, 117, 110, 101, 115 >>

\* "No fortunes found"
NoFortunesFound ==
    << 78, 111, 32, 102, 111, 114, 116, 117, 110, 101, 115, 32,
       102, 111, 117, 110, 100 >>

Written(stream, text) == [by |-> "run", stream |-> stream, text |-> text]

\* let files = find_files(&config.sources)?
RunFindFiles ==
    /\ entry = "run"
    /\ pc = "run_find"
    /\ \E ord \in WalkOrders :
       LET r == FindFiles(fsys, sources, ord)
       IN  IF r.tag = "Ok"
           THEN /\ files' = r.val
                /\ pathIdx' = 1
                /\ pc' = "read_open"
                /\ ret' = ret
           ELSE /\ ret' = r
                /\ pc' = "done"
                /\ UNCHANGED << files, pathIdx >>
    /\ UNCHANGED << arg, entry, fsys, fdata, sources, pattern, seed, lineIdx, buf,
                     fortunes, delims, bufFrom, fortunesFrom, prev_source,
                     matchIdx, output, picks,
                     earlier, line_prev, count >>

\* if let Some(pattern) = config.pattern: the filter iterator is created
RunPattern ==
    /\ pc = "run_output"
    /\ pattern # None
    /\ prev_source' = None
    /\ matchIdx' = 0
    /\ pc' = "run_filter"
    /\ UNCHANGED << arg, entry, fsys, fdata, sources, pattern, seed, files, ret,
                     pathIdx, lineIdx, buf, fortunes, delims, bufFrom,
                     fortunesFrom, output, picks,
                     earlier, line_prev, count >>

\* the filter passes over a fortune that does not match
FilterSkip ==
    /\ pc = "run_filter"
    /\ matchIdx < Len(fortunes)
    /\ ~Selected(pattern.val, fortunes[matchIdx + 1])
    /\ matchIdx' = matchIdx + 1
    /\ UNCHANGED << arg, entry, pc, fsys, fdata, sources, pattern, seed, files,
                     ret, pathIdx, lineIdx, buf, fortunes, delims, bufFrom,
                     fortunesFrom, prev_source, output, picks,
                     earlier, line_prev, count >>

\* the body of the loop for a fortune that matches
FilterMatch ==
    /\ pc = "run_filter"
    /\ matchIdx < Len(fortunes)
    /\ Selected(pattern.val, fortunes[matchIdx + 1])
    /\ LET fortune == fortunes[matchIdx + 1]
       IN  IF NeedsHeader(prev_source, fortune.source)
           THEN /\ output' = output
                       \o << Written("stderr", HeaderText(fortune.source)),
                             Written("stdout", RecordText(fortune.text)) >>
                /\ prev_source' = Some(fortune.source)
           ELSE /\ output' = Append(output,
                                 Written("stdout", RecordText(fortune.text)))
                /\ prev_source' = prev_source
    /\ matchIdx' = matchIdx + 1
    /\ UNCHANGED << arg, entry, pc, fsys, fdata, sources, pattern, seed, files,
                     ret, pathIdx, lineIdx, buf, fortunes, delims, bufFrom,
                     fortunesFrom, picks,
                     earlier, line_prev, count >>

\* the filter is exhausted: Ok(())
FilterEnd ==
    /\ pc = "run_filter"
    /\ matchIdx = Len(fortunes)
    /\ ret' = [tag |-> "Ok", val |-> << >>]
    /\ pc' = "done"
    /\ UNCHANGED << arg, entry, fsys, fdata, sources, pattern, seed, files,
                     pathIdx, lineIdx, buf, fortunes, delims, bufFrom,
                     fortunesFrom, prev_source, matchIdx, output, picks,
                     earlier, line_prev, count >>

\* no pattern: println!("{}", pick_fortune(..).unwrap_or_else(..)); Ok(())
RunRandom ==
    /\ pc = "run_output"
    /\ pattern = None
    /\ \E r \in PickFortune(fortunes, seed) :
          /\ picks' = Append(picks, [seed |-> seed, result |-> r])
          /\ output' = Append(output,
                 Written("stdout",
                         (IF r = None THEN NoFortunesFound ELSE r.val)
                             \o NewLine))
    /\ ret' = [tag |-> "Ok", val |-> << >>]
    /\ pc' = "done"
    /\ UNCHANGED << arg, entry, fsys, fdata, sources, pattern, seed, files,
                     pathIdx, lineIdx, buf, fortunes, delims, bufFrom,
                     fortunesFrom, prev_source, matchIdx,
                     earlier, line_prev, count >>

\* the filesystems run is started on: a is a directory, a/x a file or an
\* entry that cannot be inspected, a/y a file or missing, a-b missing or a
\* directory with or without the file a-b/x
RunFsSet ==
    { f \in FsSet :
        /\ f[<< cA >>] = "dir"
        /\ f[<< cA, cX >>] \in { "file", "nostat" }
        /\ f[<< cA, cY >>] \in { "file", "missing" }
        /\ f[<< cAB >>] \in { "dir", "missing" }
        /\ f[<< cAB, cX >>] \in { "file", "missing" } }

\* what the files hold: "a" / "%"; "A" / "%" / a bad line / "ab" / "%"; "b"
\* with no delimiter; nothing; or the file cannot be opened
RunContents ==
    { [tag |-> "Ok", val |-> << << 97 >>, Percent >>],
      [tag |-> "Ok",
       val |-> << << 65 >>, Percent, BadLine, << 97, 98 >>, Percent >>],
      [tag |-> "Ok", val |-> << << 98 >> >>],
      [tag |-> "Ok", val |-> << >>],
      [tag |-> "Err", val |-> "EACCES"] }

RunSources ==
    { << << cA >> >>,
      << << cA >>, << cAB >> >>,
      << << cAB >>, << cA >> >>,
      << << cAB, cX >>, << cA, cX >>, << cAB, cX >> >> }

RunPatterns ==
    { None,
      Some([lit |-> << 97 >>, insensitive |-> FALSE]),
      Some([lit |-> << 97 >>, insensitive |-> TRUE]),
      Some([lit |-> << 98 >>, insensitive |-> FALSE]) }

Seeds == { None, Some(0), Some(1), Some(2) }

InitRun ==
    /\ arg = None
    /\ earlier = None
    /\ line_prev = << >>
    /\ count = 0
    /\ entry = "run"
    /\ pc = "run_find"
    /\ fsys \in RunFsSet
    /\ fdata \in [Nodes -> RunContents]
    /\ \A n \in Nodes :
          fsys[n] # "file" => fdata[n] = [tag |-> "Err", val |-> "EACCES"]
    /\ sources \in RunSources
    /\ pattern \in RunPatterns
    /\ seed \in Seeds
    /\ files = << >>
    /\ ret = None
    /\ pathIdx = 0
    /\ lineIdx = 0
    /\ buf = << >>
    /\ fortunes = << >>
    /\ delims = 0
    /\ bufFrom = << >>
    /\ fortunesFrom = << >>
    /\ prev_source = None
    /\ matchIdx = 0
    /\ output = << >>
    /\ picks = << >>

NextRun ==
    \/ RunFindFiles
    \/ OpenFile
    \/ OpenFail
    \/ ReadLine
    \/ SkipLine
    \/ EndOfFile
    \/ ReadReturn
    \/ RunPattern
    \/ FilterSkip
    \/ FilterMatch
    \/ FilterEnd
    \/ RunRandom

SpecRun == InitRun /\ [][NextRun]_vars

-----------------------------------------------------------------------------
(* pick_fortune called on its own, several times on one corpus *)

PickTexts == { << 97 >>, << 98 >>, << 97, 10, 98 >> }

MaxCorpus == 3

InitPick ==
    /\ arg = None
    /\ earlier = None
    /\ line_prev = << >>
    /\ count = 0
    /\ entry = "pick_fortune"
    /\ pc = "pick_fortune"
    /\ fsys = NoFs
    /\ sources = << >>
    /\ fortunes \in { [i \in 1..Len(t) |-> Fortune(cX, t[i])] :
                         t \in SeqsUpTo(PickTexts, MaxCorpus) }
    /\ fdata = << >>
    /\ pattern = None
    /\ seed = None
    /\ files = << >>
    /\ ret = None
    /\ pathIdx = 0
    /\ lineIdx = 0
    /\ buf = << >>
    /\ delims = 0
    /\ bufFrom = << >>
    /\ fortunesFrom = << >>
    /\ prev_source = None
    /\ matchIdx = 0
    /\ output = << >>
    /\ picks = << >>

\* one call pick_fortune(&fortunes, sd)
CallPickFortune ==
    /\ entry = "pick_fortune"
    /\ Len(picks) < MaxPicks
    /\ \E sd \in Seeds :
        \E r \in PickFortune(fortunes, sd) :
            /\ picks' = Append(picks, [seed |-> sd, result |-> r])
            /\ ret' = r
    /\ UNCHANGED << arg, entry, pc, fsys, fdata, sources, pattern, seed, files,
                     pathIdx, lineIdx, buf, fortunes, delims, bufFrom,
                     fortunesFrom, prev_source, matchIdx, output,
                     earlier, line_prev, count >>

NextPick == CallPickFortune

SpecPick == InitPick /\ [][NextPick]_vars

-----------------------------------------------------------------------------
(* Claims about pick_fortune and run *)

\* C6: two calls of pick_fortune with the same seed on the same corpus
\* return the same text.
C6_SeededPickDeterministic ==
    \A i, j \in 1..Len(picks) :
        (picks[i].seed # None /\ picks[i].seed = picks[j].seed) =>
            picks[i].result = picks[j].result

\* two calls with one seed on a corpus of three different texts, which
\* without a seed may return different texts
C6_Witness ==
    /\ entry = "pick_fortune"
    /\ Len(fortunes) = 3
    /\ \A i, j \in 1..3 : i # j => fortunes[i].text # fortunes[j].text
    /\ Len(picks) = 2
    /\ picks[1].seed = Some(1)
    /\ picks[2].seed = Some(1)
    /\ picks[1].result = Some(fortunes[3].text)

RunDone == entry = "run" /\ pc = "done"

\* the positions of the paths of config.sources that do not exist or cannot
\* be inspected
BadSources ==
    { i \in 1..Len(sources) : Metadata(fsys, sources[i]).tag = "Err" }

FirstBad == CHOOSE i \in BadSources : \A j \in BadSources : i <= j

StdoutOf(out) ==
    LET o == SelectSeq(out, LAMBDA w : w.stream = "stdout")
    IN  [i \in 1..Len(o) |-> o[i].text]

\* C5: when a path given to find_files does not exist or cannot be
\* inspected, find_files fails with an error naming that path and the OS
\* error, returns no list, and run stops before it parses or prints anything.
C5_BadPathFailsFast ==
    (entry = "run" /\ BadSources # {}) =>
        /\ pc \in { "run_find", "done" }
        /\ files = << >>
        /\ fortunes = << >>
        /\ output = << >>
        /\ pc = "done" =>
              ret = [tag |-> "Err",
                     val |-> ErrMsg(sources[FirstBad],
                                    Metadata(fsys, sources[FirstBad]).val)]

\* the message of the claim, "No fortunes found", and the line break
ClaimedMessage ==
    << 78, 111, 32, 102, 111, 114, 116, 117, 110, 101, 115, 32,
       102, 111, 117, 110, 100, 10 >>

\* C7: on an empty corpus pick_fortune returns nothing, with any seed and
\* without, and run without a pattern prints exactly "No fortunes found"
\* and returns Ok.
C7_EmptyCorpusMessage ==
    (RunDone /\ FindFiles(fsys, sources, "asc").tag = "Ok" /\ pattern = None
        /\ fortunes = << >>) =>
        /\ picks = << [seed |-> seed, result |-> None] >>
        /\ StdoutOf(output) = << ClaimedMessage >>
        /\ ret = [tag |-> "Ok", val |-> << >>]

\* files were found and read, with a seed, and none gave a record
C7_Witness ==
    /\ RunDone
    /\ pattern = None
    /\ seed = Some(1)
    /\ Len(files) >= 2
    /\ \E n \in Nodes : fdata[n] = [tag |-> "Ok", val |-> << << 98 >> >>]
    /\ fortunes = << >>
    /\ StdoutOf(output) = << ClaimedMessage >>

\* the fortunes of the corpus whose text contains a match of the pattern
Matches == SelectSeq(fortunes, LAMBDA f : IsMatch(pattern.val, f.text))

PatternDone == RunDone /\ pattern # None /\ ret.tag = "Ok"

\* C9: with a pattern, run prints the records of the corpus whose text
\* contains a match, each once, in corpus order, each followed by a line
\* "%", and no other record.
C9_PrintsExactlyMatches ==
    PatternDone =>
        StdoutOf(output) =
            [i \in 1..Len(Matches) |->
                Matches[i].text \o NewLine \o Percent \o NewLine]

\* a corpus of at least three records of which some match, not the first,
\* and some do not
C9_Witness ==
    /\ PatternDone
    /\ Len(fortunes) >= 3
    /\ Len(Matches) >= 2
    /\ Len(Matches) < Len(fortunes)
    /\ ~IsMatch(pattern.val, fortunes[1].text)

\* what run wrote, in the order it wrote it
RunWrote == SelectSeq(output, LAMBDA w : w.by = "run")

HeaderDue(i) == i = 1 \/ Matches[i].source # Matches[i - 1].source

RECURSIVE ExpectedFrom(_)
\* what the claim has run write for the matches from the i-th on
ExpectedFrom(i) ==
    IF i > Len(Matches) THEN << >>
    ELSE (IF HeaderDue(i)
          THEN << [stream |-> "stderr",
                   text |-> << 40 >> \o Matches[i].source \o << 41 >>
                            \o NewLine \o Percent \o NewLine] >>
          ELSE << >>)
         \o << [stream |-> "stdout",
                text |-> Matches[i].text \o NewLine \o Percent \o NewLine] >>
         \o ExpectedFrom(i + 1)

\* C10: with a pattern, a header "(source)" and a line "%" is written before
\* a matching record exactly when the record is the first match or its
\* source differs from the source of the match before it.
C10_HeaderOnSourceChange ==
    PatternDone =>
        [i \in 1..Len(RunWrote) |->
            [stream |-> RunWrote[i].stream, text |-> RunWrote[i].text]]
        = ExpectedFrom(1)

\* matches of source x, then of y, then of x again: three headers, and two
\* matches in a row of one source under one header
C10_Witness ==
    /\ PatternDone
    /\ \E i \in 2..(Len(Matches) - 1) :
          /\ Matches[i - 1].source = cX
          /\ Matches[i].source = cY
          /\ Matches[i + 1].source = cX
    /\ \E i \in 2..Len(Matches) : Matches[i].source = Matches[i - 1].source
    /\ Len(SelectSeq(RunWrote, LAMBDA w : w.stream = "stderr")) = 3

-----------------------------------------------------------------------------
(* Claims about files that cannot be opened *)

Opens(p) == Open(fdata, p).tag = "Ok"

\* the paths of the call without those that cannot be opened
Openable == SelectSeq(files, Opens)

\* C11: a file that cannot be opened does not make read_fortunes fail: the
\* call returns Ok, and the corpus it returns is the corpus of the same list
\* of paths with the files that cannot be opened removed.
C11_UnopenableSkipped ==
    ReadDone =>
        /\ ret.tag = "Ok"
        /\ ret.val = ReadFortunes(fdata, Openable)

\* a file that cannot be opened comes before a file that gives a record
C11_Witness ==
    /\ ReadDone
    /\ Len(files) = 2
    /\ ~Opens(files[1])
    /\ Opens(files[2])
    /\ ret.tag = "Ok"
    /\ Len(ret.val) >= 1
    /\ Len(output) = 1

-----------------------------------------------------------------------------
(* Claims about calling find_files again *)

FindAgain == entry = "find_files" /\ pc = "again"

\* C13: find_files is idempotent: a second call on the same paths and the
\* same filesystem returns the list the first call returned, and find_files
\* called on the list it returned returns that list unchanged.
C13_FindFilesIdempotent ==
    FindAgain => ret = [tag |-> "Ok", val |-> files]

\* the second call is made on the list the first call returned, which has
\* two files found by walking a directory and differs from the paths given
C13_Witness ==
    /\ FindAgain
    /\ sources = files
    /\ Len(files) >= 2
    /\ \E i \in 1..Len(files) : Len(files[i]) = 3
    /\ ret.tag = "Ok"

-----------------------------------------------------------------------------
(* Claims about what a record is made of *)

\* the line read at << path index, line number >>
LineAt(at) == Open(fdata, files[at[1]]).val[at[2]]

\* C16: a line "%" read while the buffer is empty emits no record and
\* leaves the buffer empty, so the buffer never holds a line "%" and no
\* line "%" is among the lines of a record's text.
C16_DelimiterNeverInText ==
    /\ \A i \in 1..Len(buf) : buf[i] # Percent
    /\ \A j \in 1..Len(fortunesFrom) :
          \A k \in 1..Len(fortunesFrom[j].lines) :
              LineAt(fortunesFrom[j].lines[k]) # Percent

\* C17: the text of every record of the corpus is non-empty.
C17_TextNeverEmpty ==
    \A j \in 1..Len(fortunes) : fortunes[j].text # << >>

\* C18: the buffer is empty whenever the parse of a file starts, the lines
\* of a record's text were all read from one file, and the record's source
\* is the base name of that file.
C18_BufferLocalToFile ==
    /\ (pc = "read_lines" /\ lineIdx = 0 => buf = << >>)
    /\ \A j \in 1..Len(fortunesFrom) :
          /\ \A k \in 1..Len(fortunesFrom[j].lines) :
                fortunesFrom[j].lines[k][1] = fortunesFrom[j].at
          /\ fortunes[j].source = FileName(files[fortunesFrom[j].at])

-----------------------------------------------------------------------------
(* Claims about entries that cannot be examined and about picking *)

\* C19: when every path given to find_files can be inspected, find_files
\* returns Ok whatever lies below the directories it walks: an entry that
\* cannot be read or whose metadata is unavailable is skipped.
C19_WalkNeverFails ==
    (FindDone /\ \A i \in 1..Len(sources) :
                    Metadata(fsys, sources[i]).tag = "Ok") =>
        ret.tag = "Ok"

\* C20: on a corpus that is not empty every call of pick_fortune, with a
\* seed or without, returns a value, and that value is the text of the
\* record at some index of the corpus.
C20_PickReturnsCorpusText ==
    fortunes # << >> =>
        \A k \in 1..Len(picks) :
            /\ picks[k].result.tag = "Some"
            /\ \E i \in 1..Len(fortunes) :
                  picks[k].result.val = fortunes[i].text

\* a call with a seed and a call without one on a corpus of three records
C20_Witness ==
    /\ entry = "pick_fortune"
    /\ Len(fortunes) = 3
    /\ Len(picks) = 2
    /\ picks[1].seed # None
    /\ picks[2].seed = None
    /\ picks[1].result.tag = "Some"
    /\ picks[2].result.tag = "Some"
    /\ picks[1].result # picks[2].result

-----------------------------------------------------------------------------
(* get_args, and run called with the Config it returns *)

\* "Invalid --pattern "
InvalidPattern ==
    << 73, 110, 118, 97, 108, 105, 100, 32, 45, 45, 112, 97, 116, 116, 101,
       114, 110, 32 >>

Quote == << 34 >>

\* "\" not a valid integer"
NotAValidInteger ==
    << 34, 32, 110, 111, 116, 32, 97, 32, 118, 97, 108, 105, 100, 32, 105,
       110, 116, 101, 103, 101, 114 >>

\* the patterns of the model are literals, "*a" and "(": RegexBuilder::build
\* fails on a repetition operator with nothing to repeat and on a group
\* that is not closed
Compiles(val) == \A i \in 1..Len(val) : val[i] \notin { 40, 42 }

\* RegexBuilder::new(val).case_insensitive(i).build().map_err(..)
BuildPattern(val, insensitive) ==
    IF Compiles(val)
    THEN [tag |-> "Ok", val |-> [lit |-> val, insensitive |-> insensitive]]
    ELSE [tag |-> "Err", val |-> InvalidPattern \o val]

IsDigit(c) == c >= 48 /\ c <= 57

RECURSIVE StripZeros(_)
StripZeros(ds) ==
    IF ds # << >> /\ Head(ds) = 48 THEN StripZeros(Tail(ds)) ELSE ds

\* u64::MAX in decimal: "18446744073709551615"
U64MaxDigits ==
    << 49, 56, 52, 52, 54, 55, 52, 52, 48, 55, 51, 55, 48, 57, 53, 53, 49,
       54, 49, 53 >>

\* whether the number written by the digits ds is above the one written
\* by the digits max
Overflows(ds, max) ==
    LET sg == StripZeros(ds)
    IN  \/ Len(sg) > Len(max)
        \/ Len(sg) = Len(max) /\ StrLess(max, sg)

RECURSIVE DigitsValue(_)
\* the number written by the digits ds
DigitsValue(ds) ==
    IF ds = << >> THEN 0
    ELSE DigitsValue(SubSeq(ds, 1, Len(ds) - 1)) * 10 + (ds[Len(ds)] - 48)

\* a seed that is not a number is taken as 0
ParseU64Lenient(val) ==
    IF val # << >> /\ \A i \in 1..Len(val) : IsDigit(val[i])
    THEN [tag |-> "Ok", val |-> DigitsValue(val)]
    ELSE [tag |-> "Ok", val |-> 0]

\* parse_u64(val): str::parse::<u64> takes an optional "+" and then one or
\* more decimal digits whose value is at most u64::MAX
ParseU64(val) ==
    LET ds == IF val # << >> /\ Head(val) = 43 THEN Tail(val) ELSE val
    IN  IF /\ ds # << >>
           /\ \A i \in 1..Len(ds) : IsDigit(ds[i])
           /\ ~Overflows(ds, U64MaxDigits)
        THEN [tag |-> "Ok", val |-> DigitsValue(ds)]
        ELSE [tag |-> "Err", val |-> Quote \o val \o NotAValidInteger]

\* Option<Result<T, E>>::transpose
Transpose(opt) ==
    IF opt = None THEN [tag |-> "Ok", val |-> None]
    ELSE IF opt.val.tag = "Ok"
    THEN [tag |-> "Ok", val |-> Some(opt.val.val)]
    ELSE opt.val

\* get_args, from the values clap has matched: the pattern is built, then
\* the seed is parsed, then the Config is returned
GetArgs ==
    /\ entry = "get_args"
    /\ pc = "get_args"
    /\ LET p == Transpose(IF arg.pattern = None THEN None
                          ELSE Some(BuildPattern(arg.pattern.val,
                                                 arg.insensitive)))
           sd == Transpose(IF arg.seed = None THEN None
                           ELSE Some(ParseU64(arg.seed.val)))
       IN  IF p.tag = "Err" THEN ret' = p /\ pc' = "done"
           ELSE IF sd.tag = "Err" THEN ret' = sd /\ pc' = "done"
           ELSE /\ ret' = [tag |-> "Ok",
                           val |-> [sources |-> arg.sources,
                                    pattern |-> p.val, seed |-> sd.val]]
                /\ pc' = "main"
    /\ UNCHANGED << arg, entry, fsys, fdata, sources, pattern, seed, files,
                     pathIdx, lineIdx, buf, fortunes, delims, bufFrom,
                     fortunesFrom, prev_source, matchIdx, output, picks,
                     earlier, line_prev, count >>

\* the caller of get_args passes the Config it got to run
MainRun ==
    /\ entry = "get_args"
    /\ pc = "main"
    /\ ret.tag = "Ok"
    /\ entry' = "run"
    /\ pc' = "run_find"
    /\ sources' = ret.val.sources
    /\ pattern' = ret.val.pattern
    /\ seed' = ret.val.seed
    /\ ret' = None
    /\ UNCHANGED << arg, fsys, fdata, files, pathIdx, lineIdx, buf, fortunes,
                     delims, bufFrom, fortunesFrom, prev_source, matchIdx,
                     output, picks,
                     earlier, line_prev, count >>

\* the patterns given with --pattern: "a", "b", "*a", "("
ArgPatterns == { << 97 >>, << 98 >>, << 42, 97 >>, << 40 >> }

\* the seeds given with --seed: "0", "1", "+2", "", "-1", "1a" and
\* u64::MAX + 1
ArgSeeds ==
    { << 48 >>, << 49 >>, << 43, 50 >>, << >>, << 45, 49 >>, << 49, 97 >>,
      << 49, 56, 52, 52, 54, 55, 52, 52, 48, 55, 51, 55, 48, 57, 53, 53, 49,
         54, 49, 54 >> }

\* the directory a with the files a/x and a/y
MainFs ==
    [n \in Nodes |->
        IF n = << cA >> THEN "dir"
        ELSE IF n \in { << cA, cX >>, << cA, cY >> } THEN "file"
        ELSE "missing"]

InitMain ==
    /\ arg \in [pattern : { None } \cup { Some(v) : v \in ArgPatterns },
                 insensitive : BOOLEAN,
                 seed : { None } \cup { Some(v) : v \in ArgSeeds },
                 sources : { << << cA >> >> }]
    /\ earlier = None
    /\ line_prev = << >>
    /\ count = 0
    /\ entry = "get_args"
    /\ pc = "get_args"
    /\ fsys = MainFs
    /\ fdata \in [Nodes -> RunContents]
    /\ \A n \in Nodes :
          fsys[n] # "file" => fdata[n] = [tag |-> "Err", val |-> "EACCES"]
    /\ sources = << >>
    /\ pattern = None
    /\ seed = None
    /\ files = << >>
    /\ ret = None
    /\ pathIdx = 0
    /\ lineIdx = 0
    /\ buf = << >>
    /\ fortunes = << >>
    /\ delims = 0
    /\ bufFrom = << >>
    /\ fortunesFrom = << >>
    /\ prev_source = None
    /\ matchIdx = 0
    /\ output = << >>
    /\ picks = << >>

NextMain ==
    \/ GetArgs
    \/ MainRun
    \/ NextRun

SpecMain == InitMain /\ [][NextMain]_vars

\* the patterns of the claim that do not compile: "*a" and "("
MalformedPatterns == { << 42, 97 >>, << 40 >> }

\* the seeds of the claim that are not a 64-bit unsigned integer: "", "-1",
\* "1a" and 18446744073709551616
NotU64 ==
    { << >>, << 45, 49 >>, << 49, 97 >>,
      << 49, 56, 52, 52, 54, 55, 52, 52, 48, 55, 51, 55, 48, 57, 53, 53, 49,
         54, 49, 54 >> }

BadPatternGiven == arg.pattern # None /\ arg.pattern.val \in MalformedPatterns

BadSeedGiven == arg.seed # None /\ arg.seed.val \in NotU64

\* C12: when the pattern given does not compile or the seed given is not a
\* 64-bit unsigned integer, get_args returns an error that holds the
\* offending input, and run is never entered: no path is inspected, no file
\* is opened and nothing is written.
C12_ConfigErrorBeforeIO ==
    (arg # None /\ (BadPatternGiven \/ BadSeedGiven)) =>
        /\ entry = "get_args"
        /\ pc \in { "get_args", "done" }
        /\ files = << >> /\ pathIdx = 0 /\ lineIdx = 0
        /\ fortunes = << >> /\ output = << >> /\ picks = << >>
        /\ pc = "done" =>
              /\ ret.tag = "Err"
              /\ Occurs(IF BadPatternGiven THEN arg.pattern.val
                        ELSE arg.seed.val, ret.val)

\* a pattern that compiles is given with a seed that is not a number:
\* get_args has returned the error that names the seed
C12_Witness ==
    /\ entry = "get_args"
    /\ pc = "done"
    /\ arg.pattern = Some(<< 97 >>)
    /\ arg.seed = Some(<< 49, 97 >>)
    /\ ret.tag = "Err"
    /\ ret.val = Quote \o << 49, 97 >> \o NotAValidInteger
    /\ output = << >>

-----------------------------------------------------------------------------
(* calr (src/calr/src/lib.rs): parse_month *)

\* the bounds of the months given to parse_month: numbers of up to
\* MaxDigits digits
MaxDigits == 2

\* const MONTH_NAMES, as the source spells them
MONTH_NAMES ==
    <<
       \* January
       << 74, 97, 110, 117, 97, 114, 121 >>,
       \* Febrary
       << 70, 101, 98, 114, 97, 114, 121 >>,
       \* March
       << 77, 97, 114, 99, 104 >>,
       \* April
       << 65, 112, 114, 105, 108 >>,
       \* May
       << 77, 97, 121 >>,
       \* June
       << 74, 117, 110, 101 >>,
       \* July
       << 74, 117, 108, 121 >>,
       \* August
       << 65, 117, 103, 117, 115, 116 >>,
       \* September
       << 83, 101, 112, 116, 101, 109, 98, 101, 114 >>,
       \* Octorber
       << 79, 99, 116, 111, 114, 98, 101, 114 >>,
       \* November
       << 78, 111, 118, 101, 109, 98, 101, 114 >>,
       \* December
       << 68, 101, 99, 101, 109, 98, 101, 114 >> >>

\* u32::MAX in decimal: "4294967295"
U32MaxDigits == << 52, 50, 57, 52, 57, 54, 55, 50, 57, 53 >>

\* parse_int::<u32>(val), the error being discarded by the caller
ParseIntU32(val) ==
    LET ds == IF val # << >> /\ Head(val) = 43 THEN Tail(val) ELSE val
    IN  IF /\ ds # << >>
           /\ \A i \in 1..Len(ds) : IsDigit(ds[i])
           /\ ~Overflows(ds, U32MaxDigits)
        THEN [tag |-> "Ok", val |-> DigitsValue(ds)]
        ELSE [tag |-> "Err"]

RECURSIVE ToDigits(_)
\* format!("{}", n) of an unsigned number
ToDigits(n) ==
    IF n < 10 THEN << 48 + n >>
    ELSE Append(ToDigits(n \div 10), 48 + (n % 10))

\* "month \""
MonthQuote == << 109, 111, 110, 116, 104, 32, 34 >>

\* "\" not in the range 1 through 12"
NotInRange ==
    << 34, 32, 110, 111, 116, 32, 105, 110, 32, 116, 104, 101, 32, 114,
       97, 110, 103, 101, 32, 49, 32, 116, 104, 114, 111, 117, 103, 104,
       32, 49, 50 >>

\* "Invalid month \""
InvalidMonthQuote ==
    << 73, 110, 118, 97, 108, 105, 100, 32, 109, 111, 110, 116, 104, 32,
       34 >>

StartsWith(str, prefix) ==
    Len(prefix) <= Len(str) /\ SubSeq(str, 1, Len(prefix)) = prefix

\* the months whose lower-cased name starts with lower, in order
Matched(names, lower) ==
    SelectSeq([i \in 1..Len(names) |-> i],
              LAMBDA i : StartsWith(FoldStr(names[i]), lower))

\* parse_month(month)
ParseMonth(month) ==
    LET r == ParseIntU32(month)
    IN  IF r.tag = "Ok"
        THEN IF r.val >= 1 /\ r.val <= 12
             THEN [tag |-> "Ok", val |-> r.val]
             ELSE [tag |-> "Err",
                   val |-> MonthQuote \o ToDigits(r.val) \o NotInRange]
        ELSE LET matched == Matched(MONTH_NAMES, FoldStr(month))
             IN  IF Len(matched) = 1
                 THEN [tag |-> "Ok", val |-> matched[1]]
                 ELSE [tag |-> "Err",
                       val |-> InvalidMonthQuote \o month \o Quote]

\* the names of the twelve months in English
EnglishMonths ==
    <<
       \* January
       << 74, 97, 110, 117, 97, 114, 121 >>,
       \* February
       << 70, 101, 98, 114, 117, 97, 114, 121 >>,
       \* March
       << 77, 97, 114, 99, 104 >>,
       \* April
       << 65, 112, 114, 105, 108 >>,
       \* May
       << 77, 97, 121 >>,
       \* June
       << 74, 117, 110, 101 >>,
       \* July
       << 74, 117, 108, 121 >>,
       \* August
       << 65, 117, 103, 117, 115, 116 >>,
       \* September
       << 83, 101, 112, 116, 101, 109, 98, 101, 114 >>,
       \* October
       << 79, 99, 116, 111, 98, 101, 114 >>,
       \* November
       << 78, 111, 118, 101, 109, 98, 101, 114 >>,
       \* December
       << 68, 101, 99, 101, 109, 98, 101, 114 >> >>

UpperStr(str) ==
    [i \in 1..Len(str) |->
        IF str[i] >= 97 /\ str[i] <= 122 THEN str[i] - 32 ELSE str[i]]

Prefixes(str) == { SubSeq(str, 1, k) : k \in 0..Len(str) }

\* the months given to parse_month: the numbers of up to MaxDigits digits,
\* "foo", and every prefix of a month name, as English spells it and as
\* MONTH_NAMES spells it, as written, in lower case and in upper case
MonthInputs ==
    LET names == UNION { Prefixes(n) :
                           n \in Range(EnglishMonths) \cup Range(MONTH_NAMES) }
    IN  UNION { [1..k -> 48..57] : k \in 1..MaxDigits }
          \cup { << 102, 111, 111 >> }
          \cup names
          \cup { FoldStr(n) : n \in names }
          \cup { UpperStr(n) : n \in names }

InitMonth ==
    /\ arg \in MonthInputs
    /\ earlier = None
    /\ line_prev = << >>
    /\ count = 0
    /\ entry = "parse_month"
    /\ pc = "parse_month"
    /\ fsys = NoFs
    /\ sources = << >>
    /\ Idle

\* one call parse_month(arg)
CallParseMonth ==
    /\ entry = "parse_month"
    /\ pc = "parse_month"
    /\ ret' = ParseMonth(arg)
    /\ pc' = "done"
    /\ UNCHANGED << arg, entry, fsys, fdata, sources, pattern, seed, files,
                     pathIdx, lineIdx, buf, fortunes, delims, bufFrom,
                     fortunesFrom, prev_source, matchIdx, output, picks,
                     earlier, line_prev, count >>

NextMonth == CallParseMonth

SpecMonth == InitMonth /\ [][NextMonth]_vars

MonthDone == entry = "parse_month" /\ pc = "done"

IsNumber(str) == str # << >> /\ \A i \in 1..Len(str) : IsDigit(str[i])

\* the months of which str is a prefix, whatever the case of the letters
NamedBy(str) ==
    { i \in 1..12 : StartsWith(FoldStr(EnglishMonths[i]), FoldStr(str)) }

\* C15: parse_month gives the month for a number from 1 to 12 and for a
\* text that is, in any case of the letters, the English name of a month
\* or a prefix of the name of one month only; a number out of the range
\* gives the error month "N" not in the range 1 through 12, any other
\* text the error Invalid month "<text>".
C15_ParseMonth ==
    MonthDone =>
        IF IsNumber(arg)
        THEN LET n == DigitsValue(arg)
             IN  IF n >= 1 /\ n <= 12
                 THEN ret = [tag |-> "Ok", val |-> n]
                 ELSE ret = [tag |-> "Err",
                             val |-> MonthQuote \o ToDigits(n) \o NotInRange]
        ELSE IF Cardinality(NamedBy(arg)) = 1
        THEN ret = [tag |-> "Ok", val |-> CHOOSE i \in NamedBy(arg) : TRUE]
        ELSE ret = [tag |-> "Err",
                    val |-> InvalidMonthQuote \o arg \o Quote]

-----------------------------------------------------------------------------
(* calr (src/calr/src/lib.rs): format_month *)

LINE_WIDTH == 22

\* the years the months are formatted for
FirstYear == 2020

LastYear == 2021

Space == << 32 >>

\* n spaces
Spaces(n) == [i \in 1..n |-> 32]

\* the Gregorian calendar of chrono::NaiveDate
IsLeap(y) == (y % 4 = 0 /\ y % 100 # 0) \/ y % 400 = 0

DaysIn(y, m) ==
    IF m = 2 THEN (IF IsLeap(y) THEN 29 ELSE 28)
    ELSE IF m \in { 4, 6, 9, 11 } THEN 30
    ELSE 31

\* NaiveDate::from_ymd(y, m, d)
FromYmd(y, m, d) == [year |-> y, month |-> m, day |-> d]

\* NaiveDate::pred_opt: the day before
Pred(date) ==
    IF date.day > 1 THEN FromYmd(date.year, date.month, date.day - 1)
    ELSE IF date.month > 1
    THEN FromYmd(date.year, date.month - 1, DaysIn(date.year, date.month - 1))
    ELSE FromYmd(date.year - 1, 12, 31)

RECURSIVE DaysBefore(_, _)
\* the number of days of year y before its month m
DaysBefore(y, m) ==
    IF m = 1 THEN 0 ELSE DaysBefore(y, m - 1) + DaysIn(y, m - 1)

\* the number of the day counted from 1 January of year 1, a Monday
DayNumber(date) ==
    LET p == date.year - 1
    IN  365 * p + (p \div 4) - (p \div 100) + (p \div 400)
          + DaysBefore(date.year, date.month) + date.day

\* date.weekday().num_days_from_sunday()
NumDaysFromSunday(date) == DayNumber(date) % 7

\* last_day_in_month(year, month)
LastDayInMonth(year, month) ==
    IF month = 12 THEN Pred(FromYmd(year + 1, 1, 1))
    ELSE Pred(FromYmd(year, month + 1, 1))

\* Style::new().reverse().paint(..): the escape codes around the text
ReverseOn == << 27, 91, 55, 109 >>

ReverseOff == << 27, 91, 48, 109 >>

\* format!("{:>2}", num)
Pad2(num) == IF num < 10 THEN Space \o ToDigits(num) ELSE ToDigits(num)

\* format!("{:width$}", str): filled with spaces on the right up to width
\* characters, the characters of escape codes counted
PadRight(str, width) ==
    IF Len(str) >= width THEN str ELSE str \o Spaces(width - Len(str))

\* format!("{:^width$}", str): centred, the odd space on the right
Centre(str, width) ==
    IF Len(str) >= width THEN str
    ELSE LET pad == width - Len(str)
         IN  Spaces(pad \div 2) \o str \o Spaces(pad - (pad \div 2))

\* days.chunks(7): the weeks
Chunks(days) ==
    [w \in 1..((Len(days) + 6) \div 7) |->
        SubSeq(days, 7 * (w - 1) + 1,
               IF 7 * w < Len(days) THEN 7 * w ELSE Len(days))]

\* "Su Mo Tu We Th Fr Sa  "
WeekdayLine ==
    << 83, 117, 32, 77, 111, 32, 84, 117, 32, 87, 101, 32, 84, 104, 32,
       70, 114, 32, 83, 97, 32, 32 >>

\* format_month(year, month, print_year, today)
FormatMonth(year, month, print_year, today) ==
    LET first == FromYmd(year, month, 1)
        last == LastDayInMonth(year, month)
        is_today(day) ==
            year = today.year /\ month = today.month /\ day = today.day
        blanks == [i \in 1..NumDaysFromSunday(first) |-> Spaces(2)]
        nums == [i \in 1..(last.day - first.day + 1) |->
                    LET num == first.day + i - 1
                    IN  IF is_today(num)
                        THEN ReverseOn \o Pad2(num) \o ReverseOff
                        ELSE Pad2(num)]
        days == blanks \o nums
        month_name == MONTH_NAMES[month]
        title == IF print_year
                 THEN month_name \o Space \o ToDigits(year)
                 ELSE month_name
        weeks == Chunks(days)
    IN  << Centre(title, 20) \o Spaces(2), WeekdayLine >>
          \o [w \in 1..Len(weeks) |->
                 PadRight(Join(weeks[w], Space), LINE_WIDTH - 2) \o Spaces(2)]

\* the dates given as today: a day of no month that is formatted, or a day
\* of the month that is
Todays(year, month) ==
    { FromYmd(0, 1, 1) }
        \cup { FromYmd(year, month, d) : d \in 1..DaysIn(year, month) }

InitFormat ==
    /\ \E year \in FirstYear..LastYear, month \in 1..12 :
          arg \in [year : { year }, month : { month }, print_year : BOOLEAN,
                   today : Todays(year, month)]
    /\ earlier = None
    /\ line_prev = << >>
    /\ count = 0
    /\ entry = "format_month"
    /\ pc = "format_month"
    /\ fsys = NoFs
    /\ sources = << >>
    /\ Idle

\* one call format_month(year, month, print_year, today)
CallFormatMonth ==
    /\ entry = "format_month"
    /\ pc = "format_month"
    /\ ret' = FormatMonth(arg.year, arg.month, arg.print_year, arg.today)
    /\ pc' = "done"
    /\ UNCHANGED << arg, entry, fsys, fdata, sources, pattern, seed, files,
                     pathIdx, lineIdx, buf, fortunes, delims, bufFrom,
                     fortunesFrom, prev_source, matchIdx, output, picks,
                     earlier, line_prev, count >>

NextFormat == CallFormatMonth

SpecFormat == InitFormat /\ [][NextFormat]_vars

FormatDone == entry = "format_month" /\ pc = "done"

RECURSIVE Visible(_)
\* a line without its highlight escape codes
Visible(line) ==
    IF line = << >> THEN << >>
    ELSE IF StartsWith(line, ReverseOn)
    THEN Visible(SubSeq(line, Len(ReverseOn) + 1, Len(line)))
    ELSE IF StartsWith(line, ReverseOff)
    THEN Visible(SubSeq(line, Len(ReverseOff) + 1, Len(line)))
    ELSE << Head(line) >> \o Visible(Tail(line))

\* C14: format_month returns exactly 8 lines, each 22 columns wide when the
\* highlight escape codes are not counted: a title, the line of the days
\* of the week, and six rows of weeks.
C14_EightLinesOf22 ==
    FormatDone =>
        /\ Len(ret) = 8
        /\ \A i \in 1..Len(ret) : Len(Visible(ret[i])) = 22
        /\ ret[2] = WeekdayLine

-----------------------------------------------------------------------------
(* Claims about the steps of read_fortunes *)

\* the step consumes a delimiter line of the file being read
ConsumesDelimiter ==
    /\ pc = "read_lines"
    /\ lineIdx < Len(CurLines)
    /\ lineIdx' = lineIdx + 1
    /\ CurLines[lineIdx + 1] = Percent

\* the step appends one record made of the whole pending buffer, named
\* after the file being read, and empties the buffer
FlushesBuffer ==
    /\ fortunes' = Append(fortunes,
                          [source |-> FileName(files[pathIdx]),
                           text |-> Join(buf, NewLine)])
    /\ buf' = << >>

\* C21: in read_fortunes the corpus changes only in a step that consumes a
\* delimiter line, and that step appends exactly one record built from the
\* whole pending buffer and empties the buffer; every other step leaves
\* the corpus as it is, and the number of records is never above the
\* number of delimiter lines read.
C21_CorpusChangesAtDelimiters ==
    /\ [][fortunes' # fortunes => (ConsumesDelimiter /\ FlushesBuffer)]_vars
    /\ [](Len(fortunes) <= delims)

\* two delimiter lines were read, one of them on an empty buffer, and one
\* record of two lines was made
C21_Witness ==
    /\ ReadDone
    /\ delims = 2
    /\ Len(fortunes) = 1
    /\ Len(fortunesFrom[1].lines) = 2
    /\ buf # << >>

-----------------------------------------------------------------------------
(* run called a second time, with another seed *)

\* after a run with a pattern has ended, run is called again on the same
\* filesystem with the same sources and pattern and another seed; what the
\* first run was given and did is kept in earlier
RunAgain ==
    /\ entry = "run"
    /\ pc = "done"
    /\ pattern # None
    /\ earlier = None
    /\ earlier' = [seed |-> seed, ret |-> ret, output |-> output,
                   picks |-> picks]
    /\ \E sd \in Seeds \ { seed } : seed' = sd
    /\ pc' = "run_find"
    /\ files' = << >>
    /\ ret' = None
    /\ pathIdx' = 0
    /\ lineIdx' = 0
    /\ buf' = << >>
    /\ fortunes' = << >>
    /\ delims' = 0
    /\ bufFrom' = << >>
    /\ fortunesFrom' = << >>
    /\ prev_source' = None
    /\ matchIdx' = 0
    /\ output' = << >>
    /\ picks' = << >>
    /\ UNCHANGED << arg, entry, fsys, fdata, sources, pattern, line_prev,
                     count >>

NextTwice ==
    \/ NextRun
    \/ RunAgain

SpecTwice == InitRun /\ [][NextTwice]_vars

\* C22: with a pattern the seed has no effect: a second run on the same
\* sources with the same pattern and another seed, or with none, ends as
\* the first did and writes the same headers and the same records in the
\* same order, and neither run draws a fortune.
C22_SeedUnusedWithPattern ==
    (RunDone /\ earlier # None) =>
        /\ output = earlier.output
        /\ ret = earlier.ret
        /\ picks = << >>
        /\ earlier.picks = << >>

\* a run with a seed and a run without one that both wrote a header and
\* two records
C22_Witness ==
    /\ RunDone
    /\ earlier # None
    /\ earlier.seed # None
    /\ seed = None
    /\ ret.tag = "Ok"
    /\ Len(output) >= 3
    /\ output = earlier.output

-----------------------------------------------------------------------------
(* uniqr (src/uniqr/src/lib.rs): run *)

\* the input has at most MaxUniqLines lines
MaxUniqLines == 3

\* the characters str::trim_end removes, of those the model's lines hold:
\* tab, line feed, carriage return, space
IsWhitespace(c) == c \in { 9, 10, 13, 32 }

RECURSIVE TrimEnd(_)
\* str::trim_end
TrimEnd(str) ==
    IF str # << >> /\ IsWhitespace(str[Len(str)])
    THEN TrimEnd(SubSeq(str, 1, Len(str) - 1))
    ELSE str

\* format!("{:>4}", count)
Pad4(n) ==
    IF Len(ToDigits(n)) >= 4 THEN ToDigits(n)
    ELSE Spaces(4 - Len(ToDigits(n))) \o ToDigits(n)

\* the closure print: what is written for a run of n lines whose first
\* line is text
PrintLine(flag, n, text) ==
    IF flag THEN Pad4(n) \o Space \o text ELSE text

\* the lines read_line gives: "a", "a ", "b", "" and " ", each with its
\* line feed, and "a" and "b" without one
UniqTerminated ==
    { << 97, 10 >>, << 97, 32, 10 >>, << 98, 10 >>, << 10 >>, << 32, 10 >> }

UniqUnterminated == { << 97 >>, << 98 >> }

\* the inputs: lines that end with a line feed, the last one maybe without
UniqInputs ==
    { ls \in SeqsUpTo(UniqTerminated \cup UniqUnterminated, MaxUniqLines) :
        \A i \in 1..(Len(ls) - 1) : ls[i] \in UniqTerminated }

InitUniq ==
    /\ arg \in [lines : UniqInputs, count : BOOLEAN]
    /\ earlier = None
    /\ line_prev = << >>
    /\ count = 0
    /\ entry = "uniqr_run"
    /\ pc = "uniq_loop"
    /\ fsys = NoFs
    /\ sources = << >>
    /\ Idle

\* one turn of the loop: read_line, compare with line_prev, count or write
UniqLoop ==
    /\ entry = "uniqr_run"
    /\ pc = "uniq_loop"
    /\ LET eof == lineIdx = Len(arg.lines)
           line_cur == IF eof THEN << >> ELSE arg.lines[lineIdx + 1]
           byte == Len(line_cur)
           same == count = 0 \/ TrimEnd(line_prev) = TrimEnd(line_cur)
       IN  /\ count' = IF same THEN count + 1 ELSE 1
           /\ output' = IF same THEN output
                         ELSE Append(output,
                                     [by |-> "uniqr", stream |-> "out_file",
                                      text |-> PrintLine(arg.count, count,
                                                         line_prev)])
           /\ line_prev' = IF count' <= 1 THEN line_cur ELSE line_prev
           /\ lineIdx' = IF eof THEN lineIdx ELSE lineIdx + 1
           /\ IF byte = 0
              THEN pc' = "done" /\ ret' = [tag |-> "Ok", val |-> << >>]
              ELSE pc' = pc /\ ret' = ret
    /\ UNCHANGED << arg, entry, fsys, fdata, sources, pattern, seed, files,
                     pathIdx, buf, fortunes, delims, bufFrom, fortunesFrom,
                     prev_source, matchIdx, picks, earlier >>

NextUniq == UniqLoop

SpecUniq == InitUniq /\ [][NextUniq]_vars

UniqDone == entry = "uniqr_run" /\ pc = "done"

\* line i of the input starts a run: it is the first line, or it differs
\* from the line before it once trailing whitespace is removed
StartsRun(lines, i) ==
    i = 1 \/ TrimEnd(lines[i - 1]) # TrimEnd(lines[i])

\* the length of the run that starts at line i
RunLength(lines, i) ==
    Cardinality({ j \in i..Len(lines) :
                    \A k \in (i + 1)..j : ~StartsRun(lines, k) })

\* what the claim has written: for each run, in order, its first line,
\* after the length of the run in 4 columns and a space when counting
ClaimedOutput ==
    LET lines == arg.lines
        starts == SelectSeq([i \in 1..Len(lines) |-> i],
                            LAMBDA i : StartsRun(lines, i))
    IN  [k \in 1..Len(starts) |->
            IF arg.count
            THEN Pad4(RunLength(lines, starts[k])) \o Space
                     \o lines[starts[k]]
            ELSE lines[starts[k]]]

\* C23: uniqr's run writes one line for each maximal run of adjacent input
\* lines that are equal once trailing whitespace is removed, in input
\* order: the first line of the run, after the length of the run
\* right-aligned in 4 columns when counting; the last run is written too,
\* also when it is made of blank lines, and an empty input writes nothing.
C23_OneLinePerRun ==
    UniqDone => [k \in 1..Len(output) |-> output[k].text] = ClaimedOutput

=============================================================================
